---- MODULE Spec2Model ----
(***************************************************************************)
(* Model of src/master/redis/connection.rs of libmcaptcha: MCaptchaRedis   *)
(* (construction with capability verification) and MCaptchaRedisConnection *)
(* (the five domain command wrappers), running against a Redis store.      *)
(***************************************************************************)
EXTENDS Integers, Sequences, FiniteSets, TLC

VARIABLES
    modules,     \* store: the decoded reply to MODULE LIST (Vec<Vec<String>>)
    cmdInfo,     \* store: the reply to COMMAND INFO <cmd>, per command name
    conforming,  \* store: TRUE when its replies follow the extension's protocol
    captchas,    \* store: the registered identifiers
    visitors,    \* store: visitor counter per identifier
    pc,          \* position of MCaptchaRedis::new
    idx,         \* is_module_loaded: index into commands of the next query
    newResult,   \* what MCaptchaRedis::new returned to its caller
    verifyRuns,  \* number of times is_module_loaded has been entered
    handles,     \* number of handles handed out by the public get_client
    sent,        \* commands handed to exec by the current public call
    last,        \* the last completed domain call and its result
    hist,        \* per identifier: what the caller's own calls have established
    flight       \* per handle: an add_visitor call awaiting exec(), if any

vars == <<modules, cmdInfo, conforming, captchas, visitors, pc, idx,
          newResult, verifyRuns, handles, sent, last, hist, flight>>

----------------------------------------------------------------------------
\* Constants of connection.rs

GET == "MCAPTCHA_CACHE.GET"
ADD_VISITOR == "MCAPTCHA_CACHE.ADD_VISITOR"
DEL == "MCAPTCHA_CACHE.DELETE_CAPTCHA"
ADD_CAPTCHA == "MCAPTCHA_CACHE.ADD_CAPTCHA"
CAPTCHA_EXISTS == "MCAPTCHA_CACHE.CAPTCHA_EXISTS"

MODULE_NAME == "mcaptcha_cahce"

\* Variant: the commands listed in the order of their declarations.
commands_declared == <<GET, ADD_VISITOR, DEL, ADD_CAPTCHA, CAPTCHA_EXISTS>>

\* let commands = vec![ADD_VISITOR, ADD_CAPTCHA, DEL, CAPTCHA_EXISTS, GET];
commands == <<ADD_VISITOR, ADD_CAPTCHA, DEL, CAPTCHA_EXISTS, GET>>

CommandSet == {commands[i] : i \in 1..Len(commands)}

----------------------------------------------------------------------------
\* Bounds of the model

MaxRecords == 2     \* records in a MODULE LIST reply
MaxEntries == 2     \* strings in one record
MaxVisitors == 2    \* visitor counter cap
MaxHandles == 2     \* handles obtained through get_client
MaxReply == 3       \* largest integer a non-conforming store replies

----------------------------------------------------------------------------
\* redis::Value, as far as the code matches on it

Nil == [t |-> "Nil", items |-> <<>>]
Data == [t |-> "Data", items |-> <<>>]
IntValue == [t |-> "Int", items |-> <<>>]
Bulk(items) == [t |-> "Bulk", items |-> items]

\* CaptchaResult<T>, and the outcome of an unwrap() on an Err
Ok(v) == [kind |-> "Ok", val |-> v]
Err(e) == [kind |-> "Err", val |-> e]
Panic == [kind |-> "Panic", val |-> "unwrap"]
NoResult == [kind |-> "None", val |-> "none"]

\* CaptchaError variants
MCaptchaRedisModuleIsNotLoaded == [e |-> "MCaptchaRedisModuleIsNotLoaded", arg |-> ""]
MCaptchaRediSModuleCommandNotFound(cmd) == [e |-> "MCaptchaRediSModuleCommandNotFound", arg |-> cmd]
MCaptchaRedisModuleError == [e |-> "MCaptchaRedisModuleError", arg |-> ""]
ConnectionError == [e |-> "ConnectionError", arg |-> ""]
StoreError == [e |-> "StoreError", arg |-> ""]

\* How one exec() round trip can end: the command ran and its reply arrived,
\* the command never reached the store, or it ran and the reply was lost.
Transport == {"ok", "send_failed", "reply_lost"}

----------------------------------------------------------------------------
\* Capability verification: is_module_loaded

\* list.iter().find(|module| module.as_str() == MODULE_NAME)
find(list) == \E i \in 1..Len(list) : list[i] = MODULE_NAME

\* Variant: the name only has to appear in some record of the listing.
modules_check_any(mods) ==
    IF \E r \in 1..Len(mods) : find(mods[r])
    THEN Ok("unit")
    ELSE Err(MCaptchaRedisModuleIsNotLoaded)

\* for list in modules.iter() { match find { Some => (), None => return Err } }
modules_check(mods) ==
    IF \A r \in 1..Len(mods) : find(mods[r])
    THEN Ok("unit")
    ELSE Err(MCaptchaRedisModuleIsNotLoaded)

\* Variant: a missing command is reported as a missing module.
command_check_wrong_error(cmd, reply) ==
    IF /\ reply.t = "Bulk"
       /\ Len(reply.items) > 0
       /\ reply.items[Len(reply.items)] = Nil
    THEN Err(MCaptchaRedisModuleIsNotLoaded)
    ELSE Ok("unit")

\* Variant: the first element of the sequence is inspected, not the last.
command_check_first(cmd, reply) ==
    IF /\ reply.t = "Bulk"
       /\ Len(reply.items) > 0
       /\ reply.items[1] = Nil
    THEN Err(MCaptchaRediSModuleCommandNotFound(cmd))
    ELSE Ok("unit")

\* match reply { Value::Bulk(mut val) => match val.pop() { Some(Value::Nil) =>
\*   return Err(CommandNotFound(cmd)), _ => () }, _ => () }
command_check(cmd, reply) ==
    IF /\ reply.t = "Bulk"
       /\ Len(reply.items) > 0
       /\ reply.items[Len(reply.items)] = Nil
    THEN Err(MCaptchaRediSModuleCommandNotFound(cmd))
    ELSE Ok("unit")

\* Variant: the result of is_module_loaded is dropped (no `?`).
new_return_unchecked(r) == Ok("MCaptchaRedis")

\* m.get_client().is_module_loaded().await?; Ok(m)
new_return(r) == IF r.kind = "Err" THEN r ELSE Ok("MCaptchaRedis")

\* The part of the state MCaptchaRedis::new never touches.
DomainUnchanged == UNCHANGED <<captchas, visitors, handles, last, hist, flight>>
StoreConfigUnchanged == UNCHANGED <<modules, cmdInfo, conforming>>

\* MCaptchaRedis::new up to the first query: Redis::new(redis).await?, then
\* MCaptchaRedis(redis), its private get_client() and the entry into
\* is_module_loaded.
new ==
    /\ pc = "start"
    /\ sent' = <<>>
    /\ \E connected \in BOOLEAN :
          IF connected
          THEN /\ pc' = "module_list"
               /\ verifyRuns' = verifyRuns + 1
               /\ newResult' = newResult
          ELSE /\ pc' = "returned"
               /\ verifyRuns' = verifyRuns
               /\ newResult' = Err(ConnectionError)
    /\ idx' = idx
    /\ DomainUnchanged
    /\ StoreConfigUnchanged

\* is_module_loaded: the MODULE LIST query, its unwrap() and the loop over the
\* records; a failed module check returns through new's `?`.
is_module_loaded_modules ==
    /\ pc = "module_list"
    /\ sent' = Append(sent, <<"MODULE", "LIST">>)
    /\ \E t \in Transport :
          IF t # "ok"
          THEN pc' = "panicked" /\ newResult' = Panic /\ idx' = idx
          ELSE LET r == modules_check(modules) IN
               IF r.kind = "Ok"
               THEN pc' = "command_info" /\ idx' = 1 /\ newResult' = newResult
               ELSE pc' = "returned" /\ idx' = idx /\ newResult' = new_return(r)
    /\ verifyRuns' = verifyRuns
    /\ DomainUnchanged
    /\ StoreConfigUnchanged

\* Variant: a command is probed by running it on a scratch identifier.
is_module_loaded_command_probe ==
    /\ pc = "command_info"
    /\ sent' = Append(sent, <<commands[idx], "TEST1">>)
    /\ captchas' = IF commands[idx] = DEL THEN captchas \ {"TEST1"} ELSE captchas
    /\ visitors' = IF commands[idx] = DEL
                   THEN [visitors EXCEPT !["TEST1"] = 0]
                   ELSE visitors
    /\ \E t \in Transport :
          IF t # "ok"
          THEN pc' = "panicked" /\ newResult' = Panic /\ idx' = idx
          ELSE /\ idx' = idx + 1
               /\ IF idx = Len(commands)
                  THEN pc' = "returned" /\ newResult' = new_return(Ok("unit"))
                  ELSE pc' = pc /\ newResult' = newResult
    /\ verifyRuns' = verifyRuns
    /\ UNCHANGED <<handles, last, hist, flight>>
    /\ StoreConfigUnchanged

\* is_module_loaded: one iteration of `for cmd in commands.iter()`: the
\* COMMAND INFO query, its unwrap() and the match on the reply; after the last
\* command is_module_loaded returns Ok(()) and new returns Ok(m).
is_module_loaded_command ==
    /\ pc = "command_info"
    /\ sent' = Append(sent, <<"COMMAND", "INFO", commands[idx]>>)
    /\ \E t \in Transport :
          IF t # "ok"
          THEN pc' = "panicked" /\ newResult' = Panic /\ idx' = idx
          ELSE LET r == command_check(commands[idx], cmdInfo[commands[idx]]) IN
               IF r.kind = "Err"
               THEN pc' = "returned" /\ idx' = idx /\ newResult' = new_return(r)
               ELSE /\ idx' = idx + 1
                    /\ IF idx = Len(commands)
                       THEN pc' = "returned" /\ newResult' = new_return(r)
                       ELSE pc' = pc /\ newResult' = newResult
    /\ verifyRuns' = verifyRuns
    /\ DomainUnchanged
    /\ StoreConfigUnchanged

----------------------------------------------------------------------------
\* The store behind exec(): the Redis server with the mCaptcha cache module

Ids == {"TEST1", "TEST2"}

\* The string a conforming store returns for ADD_VISITOR (an AddVisitorResult
\* serialised as JSON) and strings that are no AddVisitorResult.
ValidPayload == "{\"duration\":30,\"difficulty_factor\":500}"
Payloads == {ValidPayload, "", "OK", "{\"duration\":30}"}

\* serde_json::from_str::<AddVisitorResult>
from_str(s) ==
    IF s = ValidPayload
    THEN Ok([duration |-> 30, difficulty_factor |-> 500])
    ELSE Err("serde_json::Error")

StoreOutcome(c, v, reply) == [captchas |-> c, visitors |-> v, reply |-> reply]

\* What the store does with one domain command: its next state and the reply
\* exec() decodes. A store that does not conform keeps the same state machine
\* but answers CAPTCHA_EXISTS and ADD_VISITOR with any value of the reply type.
StoreExec(cmd, id) ==
    CASE cmd = ADD_CAPTCHA ->
           IF id \in captchas
           THEN {StoreOutcome(captchas, visitors, Err(StoreError))}
           ELSE {StoreOutcome(captchas \cup {id}, [visitors EXCEPT ![id] = 0], Ok("OK"))}
      [] cmd = ADD_VISITOR ->
           IF id \notin captchas
           THEN {StoreOutcome(captchas, visitors, Err(StoreError))}
           ELSE {StoreOutcome(captchas, [visitors EXCEPT ![id] = @ + 1], Ok(p)) :
                    p \in IF conforming THEN {ValidPayload} ELSE Payloads}
      [] cmd = CAPTCHA_EXISTS ->
           {StoreOutcome(captchas, visitors, Ok(n)) :
               n \in IF conforming
                     THEN {IF id \in captchas THEN 0 ELSE 1}
                     ELSE 0..MaxReply}
      [] cmd = DEL ->
           {StoreOutcome(captchas \ {id}, [visitors EXCEPT ![id] = 0], Ok("OK"))}
           \cup (IF id \in captchas
                 THEN {}
                 ELSE {StoreOutcome(captchas, visitors, Err(StoreError))})
      [] cmd = GET ->
           {StoreOutcome(captchas, visitors, Ok(visitors[id]))}
           \cup (IF id \in captchas
                 THEN {}
                 ELSE {StoreOutcome(captchas, visitors, Err(StoreError))})

----------------------------------------------------------------------------
\* The five domain command wrappers: what each makes of exec()'s result

\* let res: String = exec(..).await?; serde_json::from_str(&res).unwrap(); Ok(Some(res))
add_visitor_result(reply) ==
    IF reply.kind = "Err"
    THEN reply
    ELSE LET res == from_str(reply.val) IN
         IF res.kind = "Err" THEN Panic ELSE Ok(<<"Some", res.val>>)

\* exec(..).await?; Ok(())
add_mcaptcha_result(reply) ==
    IF reply.kind = "Err" THEN reply ELSE Ok("unit")

\* Variant: every reply other than 1 is taken as "exists".
check_captcha_exists_coerce(reply) ==
    IF reply.kind = "Err"
    THEN reply
    ELSE IF reply.val = 1 THEN Ok(FALSE) ELSE Ok(TRUE)

\* Variant: the reply is read as a plain truth value, 1 for "exists".
check_captcha_exists_direct(reply) ==
    IF reply.kind = "Err"
    THEN reply
    ELSE IF reply.val = 1
         THEN Ok(TRUE)
         ELSE IF reply.val = 0
              THEN Ok(FALSE)
              ELSE Err(MCaptchaRedisModuleError)

\* let exists: usize = exec(..).await?; if exists == 1 { Ok(false) }
\* else if exists == 0 { Ok(true) } else { Err(MCaptchaRedisModuleError) }
check_captcha_exists_result(reply) ==
    IF reply.kind = "Err"
    THEN reply
    ELSE IF reply.val = 1
         THEN Ok(FALSE)
         ELSE IF reply.val = 0
              THEN Ok(TRUE)
              ELSE Err(MCaptchaRedisModuleError)

\* exec(..).await?; Ok(())
delete_captcha_result(reply) ==
    IF reply.kind = "Err" THEN reply ELSE Ok("unit")

\* let visitors: usize = exec(..).await?; Ok(visitors)
get_visitors_result(reply) ==
    IF reply.kind = "Err" THEN reply ELSE Ok(reply.val)

\* Variant: get_visitors passes CAPTCHA_EXISTS.
wire_get_exists(op) ==
    CASE op = "add_visitor" -> ADD_VISITOR
      [] op = "add_mcaptcha" -> ADD_CAPTCHA
      [] op = "check_captcha_exists" -> CAPTCHA_EXISTS
      [] op = "delete_captcha" -> DEL
      [] op = "get_visitors" -> CAPTCHA_EXISTS

\* Variant: delete_captcha passes GET.
wire_delete_get(op) ==
    CASE op = "add_visitor" -> ADD_VISITOR
      [] op = "add_mcaptcha" -> ADD_CAPTCHA
      [] op = "check_captcha_exists" -> CAPTCHA_EXISTS
      [] op = "delete_captcha" -> GET
      [] op = "get_visitors" -> GET

\* The wire command each wrapper passes to redis::cmd
wire(op) ==
    CASE op = "add_visitor" -> ADD_VISITOR
      [] op = "add_mcaptcha" -> ADD_CAPTCHA
      [] op = "check_captcha_exists" -> CAPTCHA_EXISTS
      [] op = "delete_captcha" -> DEL
      [] op = "get_visitors" -> GET

interpret(op, reply) ==
    CASE op = "add_visitor" -> add_visitor_result(reply)
      [] op = "add_mcaptcha" -> add_mcaptcha_result(reply)
      [] op = "check_captcha_exists" -> check_captcha_exists_result(reply)
      [] op = "delete_captcha" -> delete_captcha_result(reply)
      [] op = "get_visitors" -> get_visitors_result(reply)

\* What the caller knows about an identifier from its own calls:
\*   "unknown"  nothing;
\*   "deleted"  a delete_captcha returned Ok and no add_mcaptcha was called since;
\*   "added"    an add_mcaptcha returned Ok and no delete_captcha was called since;
\*   "counted"  as "added", and since then exactly n add_visitor calls were made,
\*              all returned Ok, and no counter expired.
Hist(st, n) == [st |-> st, n |-> n]

HistAfter(op, h, res) ==
    CASE op = "add_mcaptcha" ->
           IF res.kind = "Ok" THEN Hist("counted", 0)
           ELSE IF h.st = "deleted" THEN Hist("unknown", 0) ELSE h
      [] op = "delete_captcha" ->
           IF res.kind = "Ok" THEN Hist("deleted", 0)
           ELSE IF h.st \in {"added", "counted"} THEN Hist("unknown", 0) ELSE h
      [] op = "add_visitor" ->
           IF h.st # "counted" THEN h
           ELSE IF res.kind = "Ok" THEN Hist("counted", h.n + 1) ELSE Hist("added", 0)
      [] OTHER -> h

\* The record of a completed call: what exec() returned and what the wrapper
\* returned to its caller.
Completed(op, id, h, reply) ==
    [op |-> op, id |-> id, h |-> h, reply |-> reply, res |-> interpret(op, reply)]

\* Variant: a command that could not be sent is sent a second time.
Call_retry(op, h, id) ==
    /\ pc = "returned"
    /\ newResult.kind = "Ok"
    /\ \E t \in Transport :
          IF t = "send_failed"
          THEN /\ sent' = <<<<wire(op), id>>, <<wire(op), id>>>>
               /\ \E o \in StoreExec(wire(op), id) :
                     /\ captchas' = o.captchas
                     /\ visitors' = o.visitors
                     /\ last' = Completed(op, id, h, o.reply)
          ELSE /\ sent' = <<<<wire(op), id>>>>
               /\ \E o \in StoreExec(wire(op), id) :
                     /\ captchas' = o.captchas
                     /\ visitors' = o.visitors
                     /\ last' = Completed(op, id, h, IF t = "reply_lost"
                                                     THEN Err(StoreError)
                                                     ELSE o.reply)
    /\ hist' = [hist EXCEPT ![id] = HistAfter(op, hist[id], last'.res)]
    /\ UNCHANGED <<pc, idx, newResult, verifyRuns, handles, flight>>
    /\ StoreConfigUnchanged

\* One call of a wrapper on handle h: a single exec() round trip and the
\* wrapper's reading of its result.
Call(op, h, id) ==
    /\ pc = "returned"
    /\ newResult.kind = "Ok"
    /\ sent' = <<<<wire(op), id>>>>
    /\ \E t \in Transport :
          IF t = "send_failed"
          THEN /\ UNCHANGED <<captchas, visitors>>
               /\ last' = Completed(op, id, h, Err(StoreError))
          ELSE \E o \in StoreExec(wire(op), id) :
                  /\ captchas' = o.captchas
                  /\ visitors' = o.visitors
                  /\ last' = Completed(op, id, h, IF t = "reply_lost"
                                                  THEN Err(StoreError)
                                                  ELSE o.reply)
    /\ hist' = [hist EXCEPT ![id] = HistAfter(op, hist[id], last'.res)]
    /\ UNCHANGED <<pc, idx, newResult, verifyRuns, handles, flight>>
    /\ StoreConfigUnchanged

\* Variant: get_client probes the connection before handing it out.
get_client_ping ==
    /\ pc = "returned"
    /\ newResult.kind = "Ok"
    /\ handles < MaxHandles
    /\ handles' = handles + 1
    /\ sent' = <<<<"PING">>>>
    /\ UNCHANGED <<captchas, visitors, pc, idx, newResult, verifyRuns, last, hist, flight>>
    /\ StoreConfigUnchanged

\* pub fn get_client(&self) -> MCaptchaRedisConnection
get_client ==
    /\ pc = "returned"
    /\ newResult.kind = "Ok"
    /\ handles < MaxHandles
    /\ handles' = handles + 1
    /\ sent' = <<>>
    /\ UNCHANGED <<captchas, visitors, pc, idx, newResult, verifyRuns, last, hist, flight>>
    /\ StoreConfigUnchanged

\* Each wrapper is a method of a handle the caller got from get_client.
add_visitor ==
    \E h \in 1..MaxHandles, id \in Ids :
       /\ h <= handles
       /\ visitors[id] < MaxVisitors
       /\ Call("add_visitor", h, id)

add_mcaptcha ==
    \E h \in 1..MaxHandles, id \in Ids :
       /\ h <= handles
       /\ Call("add_mcaptcha", h, id)

check_captcha_exists ==
    \E h \in 1..MaxHandles, id \in Ids :
       /\ h <= handles
       /\ Call("check_captcha_exists", h, id)

delete_captcha ==
    \E h \in 1..MaxHandles, id \in Ids :
       /\ h <= handles
       /\ Call("delete_captcha", h, id)

get_visitors ==
    \E h \in 1..MaxHandles, id \in Ids :
       /\ h <= handles
       /\ Call("get_visitors", h, id)

\* add_visitor as the concurrent calls of several handles see it: the call up
\* to the await on exec(), the store running the command, and the return.
Idle == [st |-> "idle", id |-> "", ran |-> FALSE, reply |-> NoResult, res |-> NoResult]

\* add_visitor(msg) on handle h, up to exec(redis::cmd(ADD_VISITOR).arg(&[msg.0]))
add_visitor_call ==
    \E h \in 1..MaxHandles, id \in Ids :
       /\ pc = "returned"
       /\ newResult.kind = "Ok"
       /\ h <= handles
       /\ flight[h].st = "idle"
       /\ flight' = [flight EXCEPT ![h] = [Idle EXCEPT !.st = "sent", !.id = id]]
       /\ UNCHANGED <<captchas, visitors, pc, idx, newResult, verifyRuns, handles,
                      sent, last, hist>>
       /\ StoreConfigUnchanged

\* Variant: a call that finds a reply already waiting for the same identifier
\* takes that reply instead of running its own command.
add_visitor_exec_shared ==
    \E h \in 1..MaxHandles :
       /\ flight[h].st = "sent"
       /\ IF \E g \in 1..MaxHandles :
                flight[g].st = "replied" /\ flight[g].id = flight[h].id
          THEN /\ \E g \in 1..MaxHandles :
                     /\ flight[g].st = "replied"
                     /\ flight[g].id = flight[h].id
                     /\ flight' = [flight EXCEPT ![h] =
                                      [st |-> "replied", id |-> flight[h].id,
                                       ran |-> FALSE, reply |-> flight[g].reply,
                                       res |-> NoResult]]
               /\ UNCHANGED <<captchas, visitors>>
          ELSE \E o \in StoreExec(wire("add_visitor"), flight[h].id) :
                  /\ captchas' = o.captchas
                  /\ visitors' = o.visitors
                  /\ flight' = [flight EXCEPT ![h] =
                                   [st |-> "replied", id |-> flight[h].id,
                                    ran |-> (o.reply.kind = "Ok"),
                                    reply |-> o.reply, res |-> NoResult]]
       /\ UNCHANGED <<pc, idx, newResult, verifyRuns, handles, sent, last, hist>>
       /\ StoreConfigUnchanged

\* exec() of a waiting add_visitor: the store runs the command atomically, or
\* the transport fails before or after it did.
add_visitor_exec ==
    \E h \in 1..MaxHandles :
       /\ flight[h].st = "sent"
       /\ \E t \in Transport :
             IF t = "send_failed"
             THEN /\ UNCHANGED <<captchas, visitors>>
                  /\ flight' = [flight EXCEPT ![h] =
                                   [st |-> "replied", id |-> flight[h].id, ran |-> FALSE,
                                    reply |-> Err(StoreError), res |-> NoResult]]
             ELSE \E o \in StoreExec(wire("add_visitor"), flight[h].id) :
                     /\ captchas' = o.captchas
                     /\ visitors' = o.visitors
                     /\ flight' = [flight EXCEPT ![h] =
                                      [st |-> "replied", id |-> flight[h].id,
                                       ran |-> (o.reply.kind = "Ok"),
                                       reply |-> IF t = "reply_lost"
                                                 THEN Err(StoreError)
                                                 ELSE o.reply,
                                       res |-> NoResult]]
       /\ hist' = [hist EXCEPT ![flight[h].id] =
                      HistAfter("add_visitor", @, add_visitor_result(flight'[h].reply))]
       /\ UNCHANGED <<pc, idx, newResult, verifyRuns, handles, sent, last>>
       /\ StoreConfigUnchanged

\* add_visitor after the await: from_str(&res) and the return to the caller
add_visitor_return ==
    \E h \in 1..MaxHandles :
       /\ flight[h].st = "replied"
       /\ flight' = [flight EXCEPT ![h] =
                        [flight[h] EXCEPT !.st = "done",
                                          !.res = add_visitor_result(flight[h].reply)]]
       /\ UNCHANGED <<captchas, visitors, pc, idx, newResult, verifyRuns, handles,
                      sent, last, hist>>
       /\ StoreConfigUnchanged

\* The store lets a visitor leave when the captcha's duration has passed.
Expire ==
    /\ \E id \in captchas :
          /\ visitors[id] > 0
          /\ visitors' = [visitors EXCEPT ![id] = @ - 1]
          /\ hist' = [hist EXCEPT ![id] =
                         IF @.st = "counted" THEN Hist("added", 0) ELSE @]
    /\ UNCHANGED <<captchas, pc, idx, newResult, verifyRuns, handles, sent, last, flight>>
    /\ StoreConfigUnchanged

----------------------------------------------------------------------------
\* Initial states

SeqsUpTo(S, n) == UNION {[1..k -> S] : k \in 0..n}

\* Strings a MODULE LIST record can hold: the module name and names that
\* differ from it in case or by a suffix.
Names == {MODULE_NAME, "MCAPTCHA_CAHCE", "mcaptcha_cahce2"}
Listings == SeqsUpTo(SeqsUpTo(Names, MaxEntries), MaxRecords)

LoadedListing == << <<"name", MODULE_NAME>> >>
SomeListings ==
    { <<>>, LoadedListing, << <<"name", "mcaptcha_cache">> >>,
      << <<"name", MODULE_NAME>>, <<"name", "mcaptcha_cache">> >> }

\* Replies to COMMAND INFO: redis answers [nil] for an unknown command and
\* [[name, arity, ...]] for a known one; the other shapes are what the match
\* in is_module_loaded also has to classify.
InfoReplies ==
    { Nil, IntValue, Bulk(<<>>), Bulk(<<Nil>>), Bulk(<<Bulk(<<Data>>)>>),
      Bulk(<<Data, Nil>>), Bulk(<<Nil, Data>>) }

AllPresent == [c \in CommandSet |-> Bulk(<<Bulk(<<Data>>)>>)]
SomeTables ==
    {AllPresent} \cup {[AllPresent EXCEPT ![c] = Bulk(<<Nil>>)] : c \in CommandSet}

InitCaller ==
    /\ pc = "start"
    /\ idx = 0
    /\ newResult = NoResult
    /\ verifyRuns = 0
    /\ handles = 0
    /\ sent = <<>>
    /\ last = [op |-> "none", id |-> "", h |-> 0, reply |-> NoResult, res |-> NoResult]
    /\ hist = [id \in Ids |-> Hist("unknown", 0)]
    /\ flight = [h \in 1..MaxHandles |-> Idle]

InitStoreData ==
    /\ captchas \in SUBSET Ids
    /\ visitors \in [Ids -> 0..1]
    /\ \A id \in Ids : id \notin captchas => visitors[id] = 0

\* A conforming store, in any of a few configurations.
Init ==
    /\ modules \in SomeListings
    /\ cmdInfo \in SomeTables
    /\ conforming = TRUE
    /\ InitStoreData
    /\ InitCaller

\* A store with the module loaded whose domain replies need not conform.
InitReplies ==
    /\ modules = LoadedListing
    /\ cmdInfo = AllPresent
    /\ conforming \in BOOLEAN
    /\ InitStoreData
    /\ InitCaller

\* Every module listing within the bounds.
InitModules ==
    /\ modules \in Listings
    /\ cmdInfo \in {AllPresent, [AllPresent EXCEPT ![DEL] = Bulk(<<Nil>>)]}
    /\ conforming = TRUE
    /\ captchas = {}
    /\ visitors = [id \in Ids |-> 0]
    /\ InitCaller

\* Every table of COMMAND INFO replies.
InitCommands ==
    /\ modules \in {<<>>, LoadedListing}
    /\ cmdInfo \in [CommandSet -> InfoReplies]
    /\ conforming = TRUE
    /\ captchas = {}
    /\ visitors = [id \in Ids |-> 0]
    /\ InitCaller

\* Every table of COMMAND INFO replies, with listings that pass and that fail.
InitOrder ==
    /\ modules \in SomeListings
    /\ cmdInfo \in [CommandSet -> InfoReplies]
    /\ conforming = TRUE
    /\ captchas = {}
    /\ visitors = [id \in Ids |-> 0]
    /\ InitCaller

\* A verified factory with all its handles taken and TEST1 just registered.
InitConcurrent ==
    /\ modules = LoadedListing
    /\ cmdInfo = AllPresent
    /\ conforming \in BOOLEAN
    /\ captchas = {"TEST1"}
    /\ visitors = [id \in Ids |-> 0]
    /\ pc = "returned"
    /\ idx = Len(commands) + 1
    /\ newResult = Ok("MCaptchaRedis")
    /\ verifyRuns = 1
    /\ handles = MaxHandles
    /\ sent = <<<<ADD_CAPTCHA, "TEST1">>>>
    /\ last = Completed("add_mcaptcha", "TEST1", 1, Ok("OK"))
    /\ hist = [id \in Ids |-> IF id = "TEST1" THEN Hist("counted", 0) ELSE Hist("unknown", 0)]
    /\ flight = [h \in 1..MaxHandles |-> Idle]

NextConcurrent ==
    \/ add_visitor_call
    \/ add_visitor_exec
    \/ add_visitor_return
    \/ get_visitors

NextNew ==
    \/ new
    \/ is_module_loaded_modules
    \/ is_module_loaded_command

Next ==
    \/ new
    \/ is_module_loaded_modules
    \/ is_module_loaded_command
    \/ get_client
    \/ add_visitor
    \/ add_mcaptcha
    \/ check_captcha_exists
    \/ delete_captcha
    \/ get_visitors
    \/ Expire

Spec == Init /\ [][Next]_vars
SpecReplies == InitReplies /\ [][Next]_vars
SpecModules == InitModules /\ [][NextNew]_vars
SpecCommands == InitCommands /\ [][NextNew]_vars
SpecOrder == InitOrder /\ [][NextNew]_vars
SpecConcurrent == InitConcurrent /\ [][NextConcurrent]_vars

----------------------------------------------------------------------------
\* Properties of construction and capability verification

\* The store's module listing, read without the code's loop
EveryRecordNamesModule ==
    \A r \in 1..Len(modules) : \E j \in 1..Len(modules[r]) : modules[r][j] = MODULE_NAME

NoRecordNamesModule ==
    \A r \in 1..Len(modules) : \A j \in 1..Len(modules[r]) : modules[r][j] # MODULE_NAME

\* A COMMAND INFO reply that reports absence: a sequence ending in the null marker
Missing(v) == v.t = "Bulk" /\ Len(v.items) >= 1 /\ v.items[Len(v.items)].t = "Nil"

MissingCommands == {i \in 1..Len(commands) : Missing(cmdInfo[commands[i]])}

AllQueries ==
    <<<<"MODULE", "LIST">>>> \o [i \in 1..Len(commands) |-> <<"COMMAND", "INFO", commands[i]>>]

DomainCommandSent == \E i \in 1..Len(sent) : sent[i][1] \in CommandSet

VerificationSucceeded ==
    /\ pc = "returned"
    /\ idx = Len(commands) + 1
    /\ EveryRecordNamesModule
    /\ MissingCommands = {}

IsErr(r, e) == r.kind = "Err" /\ r.val = e

\* C1: a domain command is sent, a handle handed out or a domain call completed
\* only after capability verification ran to completion and succeeded, and
\* verification is entered once per MCaptchaRedis and never again.
C1_VerifyBeforeUse ==
    /\ verifyRuns <= 1
    /\ (DomainCommandSent \/ handles > 0 \/ last.op # "none")
          => (VerificationSucceeded /\ verifyRuns = 1)

C1_Witness ==
    /\ DomainCommandSent
    /\ last.op = "add_visitor"
    /\ last.res.kind = "Ok"
    /\ handles = MaxHandles
    /\ verifyRuns = 1

\* C2: new returns Ok only after a connection and a successful verification;
\* it returns the connection error when the connection fails,
\* MCaptchaRedisModuleIsNotLoaded when the module check fails and
\* MCaptchaRediSModuleCommandNotFound(name) when a command check fails; a
\* caller that did not get Ok holds no factory: no handle, no domain call.
C2_NewResult ==
    /\ pc = "returned" =>
          /\ newResult.kind \in {"Ok", "Err"}
          /\ newResult.kind = "Ok" =>
                (verifyRuns = 1 /\ EveryRecordNamesModule /\ MissingCommands = {})
          /\ verifyRuns = 0 => IsErr(newResult, ConnectionError)
          /\ (verifyRuns = 1 /\ ~EveryRecordNamesModule) =>
                IsErr(newResult, MCaptchaRedisModuleIsNotLoaded)
          /\ (verifyRuns = 1 /\ EveryRecordNamesModule /\ MissingCommands # {}) =>
                \E i \in MissingCommands :
                   IsErr(newResult, MCaptchaRediSModuleCommandNotFound(commands[i]))
    /\ newResult.kind # "Ok" =>
          (handles = 0 /\ last.op = "none" /\ ~DomainCommandSent)

C2_Witness ==
    /\ pc = "returned"
    /\ EveryRecordNamesModule
    /\ Len(modules) > 0
    /\ IsErr(newResult, MCaptchaRediSModuleCommandNotFound(CAPTCHA_EXISTS))

\* C3: a store whose module listing holds no entry equal to the module name,
\* whatever the number of records, makes verification fail with
\* MCaptchaRedisModuleIsNotLoaded.
C3_NoEntryIsNotLoaded ==
    (pc = "returned" /\ verifyRuns = 1 /\ NoRecordNamesModule)
       => IsErr(newResult, MCaptchaRedisModuleIsNotLoaded)

\* The module check has been made: the MODULE LIST reply arrived.
ModuleCheckDone ==
    /\ verifyRuns = 1
    /\ \/ pc \in {"command_info", "returned"}
       \/ pc = "panicked" /\ Len(sent) >= 2

\* C4: the module check passes exactly when every record of the listing holds
\* a string equal to the module name; one record without it fails verification
\* with MCaptchaRedisModuleIsNotLoaded, whatever the other records hold.
C4_ModuleCheckRule ==
    ModuleCheckDone =>
       /\ (idx >= 1) <=> EveryRecordNamesModule
       /\ ~EveryRecordNamesModule =>
             (pc = "returned" /\ IsErr(newResult, MCaptchaRedisModuleIsNotLoaded))

C4_Witness ==
    /\ pc = "returned"
    /\ Len(modules) = 2
    /\ modules[1] = <<"MCAPTCHA_CAHCE", MODULE_NAME>>
    /\ modules[2] = <<"mcaptcha_cahce2", "MCAPTCHA_CAHCE">>
    /\ IsErr(newResult, MCaptchaRedisModuleIsNotLoaded)

\* C5: after the module check, a command is missing exactly when its reply is
\* a sequence ending in the null marker; verification succeeds exactly when no
\* command is missing, and then all five were queried; otherwise it fails with
\* MCaptchaRediSModuleCommandNotFound naming a missing command.
C5_CommandCheckRule ==
    (pc = "returned" /\ idx >= 1) =>
       /\ (newResult.kind = "Ok") <=> (MissingCommands = {})
       /\ MissingCommands = {} => sent = AllQueries
       /\ MissingCommands # {} =>
             \E i \in MissingCommands :
                IsErr(newResult, MCaptchaRediSModuleCommandNotFound(commands[i]))

C5_Witness ==
    /\ pc = "returned"
    /\ cmdInfo[ADD_VISITOR] = Bulk(<<Nil, Data>>)
    /\ cmdInfo[ADD_CAPTCHA] = Bulk(<<>>)
    /\ cmdInfo[DEL] = Nil
    /\ cmdInfo[CAPTCHA_EXISTS] = IntValue
    /\ cmdInfo[GET] = Bulk(<<Data, Nil>>)
    /\ IsErr(newResult, MCaptchaRediSModuleCommandNotFound(GET))

----------------------------------------------------------------------------
\* Properties of the domain command wrappers

IsOk(r, v) == r.kind = "Ok" /\ r.val = v

\* C6: check_captcha_exists returns Ok(false) for the reply 1, Ok(true) for
\* the reply 0 and MCaptchaRedisModuleError for any other integer; it never
\* panics.
C6_ExistencePolicy ==
    last.op = "check_captcha_exists" =>
       /\ last.res.kind \in {"Ok", "Err"}
       /\ last.reply.kind = "Ok" =>
             /\ last.reply.val = 1 => IsOk(last.res, FALSE)
             /\ last.reply.val = 0 => IsOk(last.res, TRUE)
             /\ last.reply.val \notin {0, 1} => IsErr(last.res, MCaptchaRedisModuleError)

C6_Witness ==
    /\ last.op = "check_captcha_exists"
    /\ last.reply.kind = "Ok"
    /\ last.reply.val = MaxReply
    /\ IsErr(last.res, MCaptchaRedisModuleError)

\* C7: against a conforming store, check_captcha_exists(id) returns false
\* while id is not registered and true once an add_mcaptcha(id) has returned
\* Ok and no delete_captcha(id) was called since.
C7_RegisterExists ==
    (conforming /\ last.op = "check_captcha_exists" /\ last.res.kind = "Ok") =>
       /\ last.id \notin captchas => last.res.val = FALSE
       /\ hist[last.id].st \in {"added", "counted"} => last.res.val = TRUE

C7_Witness ==
    /\ last.op = "check_captcha_exists"
    /\ IsOk(last.res, TRUE)
    /\ hist[last.id].st = "counted"
    /\ \E id \in Ids : id \notin captchas

\* C8: after an add_mcaptcha(id) followed by exactly N add_visitor(id) calls
\* that all returned Ok, with no delete and no expiry, get_visitors(id)
\* returns N, however often it is repeated.
C8_VisitorCount ==
    (conforming /\ last.op = "get_visitors" /\ last.res.kind = "Ok"
                /\ hist[last.id].st = "counted")
       => last.res.val = hist[last.id].n

C8_Witness ==
    /\ last.op = "get_visitors"
    /\ hist[last.id] = Hist("counted", MaxVisitors)
    /\ IsOk(last.res, MaxVisitors)

C9_ExistsAfterDelete ==
    (conforming /\ last.op = "check_captcha_exists" /\ last.res.kind = "Ok"
                /\ hist[last.id].st = "deleted")
       => last.res.val = FALSE

C9_OthersKept ==
    last'.op = "delete_captcha" =>
       \A j \in Ids \ {last'.id} : (j \in captchas') <=> (j \in captchas)

\* C9: once delete_captcha(id) has returned Ok, registered before or not,
\* check_captcha_exists(id) returns false until add_mcaptcha(id) is called;
\* a delete leaves every other identifier registered or unregistered as it was.
C9_DeleteExists == []C9_ExistsAfterDelete /\ [][C9_OthersKept]_vars

C9_Witness ==
    /\ last.op = "check_captcha_exists"
    /\ IsOk(last.res, FALSE)
    /\ hist[last.id].st = "deleted"
    /\ \E j \in Ids \ {last.id} : hist[j].st = "counted" /\ j \in captchas

\* C10: add_visitor returns an error when the store's string does not parse
\* as an AddVisitorResult, returns Ok(Some(result)) only when it parses, and
\* never panics.
C10_UnparsableIsError ==
    last.op = "add_visitor" =>
       /\ last.res.kind \in {"Ok", "Err"}
       /\ (last.reply.kind = "Ok" /\ last.reply.val # ValidPayload) => last.res.kind = "Err"
       /\ last.res.kind = "Ok" => (last.reply.kind = "Ok" /\ last.reply.val = ValidPayload)

----------------------------------------------------------------------------
\* Properties of error propagation and of what is sent

\* C11: when a query of capability verification fails in transport, new
\* returns an error value to its caller: whenever new has ended, it has
\* returned Ok or Err, it has not panicked.
C11_StartupFailureIsError ==
    pc \notin {"start", "module_list", "command_info"} =>
       (pc = "returned" /\ newResult.kind \in {"Ok", "Err"})

\* The wire command the interface assigns to each operation
WireOf(op) ==
    CASE op = "add_mcaptcha" -> "MCAPTCHA_CACHE.ADD_CAPTCHA"
      [] op = "add_visitor" -> "MCAPTCHA_CACHE.ADD_VISITOR"
      [] op = "check_captcha_exists" -> "MCAPTCHA_CACHE.CAPTCHA_EXISTS"
      [] op = "delete_captcha" -> "MCAPTCHA_CACHE.DELETE_CAPTCHA"
      [] op = "get_visitors" -> "MCAPTCHA_CACHE.GET"

\* A step that is a call of one of the five wrappers
CallStep ==
    /\ pc = "returned"
    /\ handles' = handles
    /\ (sent' # sent \/ last' # last)

C12_OneCommand ==
    CallStep =>
       /\ last'.op \in {"add_mcaptcha", "add_visitor", "check_captcha_exists",
                        "delete_captcha", "get_visitors"}
       /\ sent' = <<<<WireOf(last'.op), last'.id>>>>
       /\ last'.reply.kind = "Err" => last'.res = last'.reply

\* C12: each wrapper call sends exactly one command, its own wire command with
\* the caller's identifier first, and a failure of that command is returned as
\* it is, with no second command.
C12_OneCommandPerCall == [][C12_OneCommand]_vars

C12_Witness ==
    /\ last.op = "delete_captcha"
    /\ sent = <<<<"MCAPTCHA_CACHE.DELETE_CAPTCHA", last.id>>>>
    /\ IsErr(last.reply, StoreError)
    /\ IsErr(last.res, StoreError)
    /\ last.id \in captchas

\* A caller that holds the factory can always take one more handle.
C13_AlwaysAvailable ==
    (pc = "returned" /\ newResult.kind = "Ok" /\ handles < MaxHandles)
       => ENABLED get_client

\* A get_client step hands out a handle and touches nothing else.
C13_Frame ==
    handles' # handles =>
       /\ handles' = handles + 1
       /\ sent' = <<>>
       /\ UNCHANGED <<captchas, visitors, modules, cmdInfo, newResult, last, verifyRuns>>

\* C13: get_client never fails and sends no command: it returns a handle
\* whenever it is called on a constructed MCaptchaRedis and leaves the store
\* as it was.
C13_GetClient == []C13_AlwaysAvailable /\ [][C13_Frame]_vars

C13_Witness ==
    /\ handles = MaxHandles
    /\ sent = <<>>
    /\ last.op = "add_visitor"
    /\ last.res.kind = "Ok"
    /\ captchas = Ids

----------------------------------------------------------------------------
\* Properties of the order of the verification queries

\* The queries in the order the interface fixes
OrderedQueries ==
    << <<"MODULE", "LIST">>,
       <<"COMMAND", "INFO", "MCAPTCHA_CACHE.ADD_VISITOR">>,
       <<"COMMAND", "INFO", "MCAPTCHA_CACHE.ADD_CAPTCHA">>,
       <<"COMMAND", "INFO", "MCAPTCHA_CACHE.DELETE_CAPTCHA">>,
       <<"COMMAND", "INFO", "MCAPTCHA_CACHE.CAPTCHA_EXISTS">>,
       <<"COMMAND", "INFO", "MCAPTCHA_CACHE.GET">> >>

\* Positions in OrderedQueries of the commands whose reply reports absence
MissingQueries == {k \in 2..Len(OrderedQueries) : Missing(cmdInfo[OrderedQueries[k][3]])}

\* C14: verification sends MODULE LIST first and then the COMMAND INFO queries
\* in the order ADD_VISITOR, ADD_CAPTCHA, DELETE_CAPTCHA, CAPTCHA_EXISTS, GET,
\* and stops at the first failure: a failed module check is followed by no
\* COMMAND INFO query, and with several commands missing the error names the
\* first of them and the queries end with it.
C14_OrderAndShortCircuit ==
    /\ Len(sent) <= Len(OrderedQueries)
    /\ sent = SubSeq(OrderedQueries, 1, Len(sent))
    /\ (pc = "returned" /\ verifyRuns = 1 /\ ~EveryRecordNamesModule) =>
          sent = <<<<"MODULE", "LIST">>>>
    /\ (pc = "returned" /\ verifyRuns = 1 /\ EveryRecordNamesModule
                         /\ MissingQueries # {}) =>
          \E k \in MissingQueries :
             /\ \A j \in MissingQueries : k <= j
             /\ Len(sent) = k
             /\ IsErr(newResult, MCaptchaRediSModuleCommandNotFound(OrderedQueries[k][3]))

C14_Witness ==
    /\ pc = "returned"
    /\ MissingQueries = {3, 6}
    /\ Len(sent) = 3
    /\ IsErr(newResult, MCaptchaRediSModuleCommandNotFound(ADD_CAPTCHA))

----------------------------------------------------------------------------
\* Properties of what verification leaves alone

\* A step of MCaptchaRedis::new
NewStep ==
    /\ pc \in {"start", "module_list", "command_info"}
    /\ (pc' # pc \/ sent' # sent)

C15_Step ==
    NewStep =>
       /\ captchas' = captchas
       /\ visitors' = visitors
       /\ \A i \in 1..Len(sent') : sent'[i][1] \in {"MODULE", "COMMAND"}

\* C15: capability verification, succeeding or failing, sends only MODULE LIST
\* and COMMAND INFO queries and no domain command, and no step of new changes
\* the registered identifiers or a visitor count.
C15_VerificationReadOnly == [][C15_Step]_vars

C15_Witness ==
    /\ pc = "returned"
    /\ newResult.kind = "Ok"
    /\ handles = 0
    /\ sent = AllQueries
    /\ captchas = Ids
    /\ \A id \in Ids : visitors[id] = 1

----------------------------------------------------------------------------
\* Properties of concurrent add_visitor calls

AllCompleted == \A h \in 1..MaxHandles : flight[h].st \in {"idle", "done"}

\* The completed calls on id that returned Ok
OkCalls(id) ==
    {h \in 1..MaxHandles :
        flight[h].st = "done" /\ flight[h].id = id /\ flight[h].res.kind = "Ok"}

\* The completed calls on id whose command the store ran although the call
\* did not return Ok: the reply was lost in transport or did not parse
UnseenCalls(id) ==
    {h \in 1..MaxHandles :
        flight[h].st = "done" /\ flight[h].id = id /\ flight[h].ran
           /\ flight[h].res.kind # "Ok"}

\* A get_visitors call on a registered identifier, made when every
\* add_visitor call has completed, that returns a count
FinalGet ==
    /\ last'.op = "get_visitors"
    /\ sent' = <<<<GET, last'.id>>>>
    /\ \A h \in 1..MaxHandles : flight'[h].st = flight[h].st
    /\ AllCompleted
    /\ last'.id \in captchas
    /\ last'.res.kind = "Ok"

\* C16 as stated: after concurrent add_visitor calls over distinct handles,
\* get_visitors returns the number of calls that returned Ok.
C16_CountIsOkCalls ==
    [][FinalGet => last'.res.val = Cardinality(OkCalls(last'.id))]_vars

\* C16: after concurrent add_visitor calls over distinct handles, under every
\* interleaving, get_visitors returns the number of calls that returned Ok
\* plus the number of calls the store ran without the caller seeing Ok: no
\* call that returned Ok is ever missing from the count.
C16_NoLostUpdate ==
    [][FinalGet => last'.res.val = Cardinality(OkCalls(last'.id))
                                    + Cardinality(UnseenCalls(last'.id))]_vars

C16_Witness ==
    /\ last.op = "get_visitors"
    /\ last.id = "TEST1"
    /\ IsOk(last.res, MaxHandles)
    /\ \A h \in 1..MaxHandles : flight[h].st = "done" /\ flight[h].res.kind = "Ok"

====
